---- MODULE Spec2Model ----
(***************************************************************************)
(* Deposit amount quoting (getDepositAmounts) of the GM/GLV liquidity     *)
(* interface, as a state machine: a request is drawn, quoted, and quoted  *)
(* again after the UI fee factor changed.                                  *)
(*                                                                         *)
(* Numbers are bigint values of the program.  A value of the program is   *)
(* a record [k, n]: k = "num" for a bigint n, k = "undef" for undefined   *)
(* and k = "throw" once an exception was thrown (a bigint operator on     *)
(* undefined: TypeError; a division by 0n: RangeError).  An exception     *)
(* aborts the call, so a thrown value absorbs every later operation.      *)
(***************************************************************************)
EXTENDS Integers, Sequences, FiniteSets, TLC

----------------------------------------------------------------------------
(* Bounds of the model *)

\* token amounts of a request are 0, AmountUnit, ..., MaxAmount * AmountUnit
MaxAmount == 2

AmountUnit == 7

\* UI fee factors of a request are 0 .. MaxUiFeeFactor, in units of 1/PRECISION
MaxUiFeeFactor == 2

\* at most MaxProviders providers are created by the useWsProvider hooks
MaxProviders == 4

\* time jumps ahead by a silent stretch at most MaxElapses times
MaxElapses == 1

----------------------------------------------------------------------------
(* Values of the program *)

Num(n) == [k |-> "num", n |-> n]

Undefined == [k |-> "undef", n |-> 0]

Thrown == [k |-> "throw", n |-> 0]

IsNum(a) == a.k = "num"

\* the quotient of bigint division, which truncates toward zero
TruncDiv(a, b) ==
  IF (a >= 0) = (b > 0)
  THEN (IF a >= 0 THEN a ELSE -a) \div (IF b > 0 THEN b ELSE -b)
  ELSE -((IF a >= 0 THEN a ELSE -a) \div (IF b > 0 THEN b ELSE -b))

\* a + b on bigint | undefined
Add(a, b) ==
  IF a.k = "throw" \/ b.k = "throw" THEN Thrown
  ELSE IF a.k = "undef" \/ b.k = "undef" THEN Thrown
  ELSE Num(a.n + b.n)

\* a - b on bigint | undefined
Sub(a, b) ==
  IF a.k = "throw" \/ b.k = "throw" THEN Thrown
  ELSE IF a.k = "undef" \/ b.k = "undef" THEN Thrown
  ELSE Num(a.n - b.n)

\* -a on bigint | undefined
Neg(a) ==
  IF a.k = "throw" THEN Thrown
  ELSE IF a.k = "undef" THEN Thrown
  ELSE Num(-a.n)

\* a > 0 : a comparison with undefined is false and does not throw
Gt0(a) == a.k = "num" /\ a.n > 0

\* a < 0
Lt0(a) == a.k = "num" /\ a.n < 0

\* a ?? 0n (the non-null assertion a! changes nothing when the program runs)
Coalesce0(a) == IF a.k = "undef" THEN Num(0) ELSE a

\* 10^d
RECURSIVE expandDecimals(_)
expandDecimals(d) == IF d = 0 THEN 1 ELSE 10 * expandDecimals(d - 1)

----------------------------------------------------------------------------
(* Arithmetic and pricing primitives (lib/bigmath, lib/numbers,           *)
(* domain/synthetics/tokens, fees, markets)                                *)

\* the precision of a factor: factor f stands for f / PRECISION
PRECISION == 10

\* bigMath.mulDiv(x, y, z) = (x * y) / z, truncating
mulDiv(x, y, z) ==
  IF x.k = "throw" \/ y.k = "throw" \/ z.k = "throw" THEN Thrown
  ELSE IF x.k = "undef" \/ y.k = "undef" \/ z.k = "undef" THEN Thrown
  ELSE IF z.n = 0 THEN Thrown
  ELSE Num(TruncDiv(x.n * y.n, z.n))

\* applyFactor(value, factor) = value * factor / PRECISION
applyFactor(value, factor) ==
  IF value.k = "throw" THEN Thrown
  ELSE IF value.k = "undef" THEN Thrown
  ELSE Num(TruncDiv(value.n * factor, PRECISION))

\* getMidPrice(prices) = (minPrice + maxPrice) / 2
getMidPrice(prices) == (prices.minPrice + prices.maxPrice) \div 2

\* convertToUsd(amount, decimals, price): undefined when the price is 0
convertToUsd(amount, decimals, price) ==
  IF amount.k = "throw" THEN Thrown
  ELSE IF amount.k = "undef" \/ price = 0 THEN Undefined
  ELSE Num(TruncDiv(amount.n * price, expandDecimals(decimals)))

\* convertToTokenAmount(usd, decimals, price): undefined when the price is 0
convertToTokenAmount(usd, decimals, price) ==
  IF usd.k = "throw" THEN Thrown
  ELSE IF usd.k = "undef" \/ price = 0 THEN Undefined
  ELSE Num(TruncDiv(usd.n * expandDecimals(decimals), price))

\* decimals of a USD value: 1 USD is expandDecimals(USD_DECIMALS)
USD_DECIMALS == 1

\* getSwapFee(marketInfo, swapAmount, forPositiveImpact)
getSwapFee(marketInfo, swapAmount, forPositiveImpact) ==
  applyFactor(swapAmount,
              IF forPositiveImpact THEN marketInfo.swapFeeFactorForPositiveImpact
              ELSE marketInfo.swapFeeFactorForNegativeImpact)

\* getPriceImpactForSwap(marketInfo, longToken, shortToken, longUsd, shortUsd):
\* the signed USD delta of moving the pool from its current long/short
\* imbalance to the one after the deposit (linear impact, exponent 1)
getPriceImpactForSwap(marketInfo, longToken, shortToken, longUsd, shortUsd) ==
  LET curLong == convertToUsd(Num(marketInfo.longPoolAmount), longToken.decimals,
                              getMidPrice(longToken.prices))
      curShort == convertToUsd(Num(marketInfo.shortPoolAmount), shortToken.decimals,
                               getMidPrice(shortToken.prices))
      nextLong == Add(curLong, longUsd)
      nextShort == Add(curShort, shortUsd)
      curDiff == Sub(curLong, curShort)
      nextDiff == Sub(nextLong, nextShort)
      abs(x) == IF x < 0 THEN -x ELSE x
  IN  IF ~IsNum(curDiff) \/ ~IsNum(nextDiff) THEN Thrown
      ELSE IF abs(nextDiff.n) < abs(curDiff.n)
      THEN applyFactor(Num(abs(curDiff.n) - abs(nextDiff.n)),
                       marketInfo.swapImpactFactorPositive)
      ELSE Neg(applyFactor(Num(abs(nextDiff.n) - abs(curDiff.n)),
                           marketInfo.swapImpactFactorNegative))

\* applySwapImpactWithCap(marketInfo, token, priceImpactDeltaUsd).impactDeltaAmount:
\* the delta in token units, a positive one capped by the token's impact pool
applySwapImpactWithCap(marketInfo, token, priceImpactDeltaUsd) ==
  LET price == IF Gt0(priceImpactDeltaUsd) THEN token.prices.maxPrice
               ELSE token.prices.minPrice
      impactDeltaAmount == convertToTokenAmount(priceImpactDeltaUsd, token.decimals, price)
      maxImpactAmount == IF token.isLong THEN marketInfo.swapImpactPoolAmountLong
                         ELSE marketInfo.swapImpactPoolAmountShort
  IN  IF IsNum(impactDeltaAmount) /\ impactDeltaAmount.n > maxImpactAmount
      THEN Num(maxImpactAmount)
      ELSE impactDeltaAmount

\* usdToMarketTokenAmount(marketInfo, marketToken, usdValue): the market
\* tokens minted for usdValue at the pool's value per token
usdToMarketTokenAmount(marketInfo, marketToken, usdValue) ==
  IF marketToken.totalSupply = 0
  THEN convertToTokenAmount(usdValue, marketToken.decimals, expandDecimals(USD_DECIMALS))
  ELSE IF marketInfo.poolValueMax = 0
  THEN (IF usdValue.k = "throw" THEN Thrown ELSE Num(0))
  ELSE mulDiv(Num(marketToken.totalSupply), usdValue, Num(marketInfo.poolValueMax))

\* marketTokenAmountToUsd(marketInfo, marketToken, amount): amount valued at
\* the pool's value per token
marketTokenAmountToUsd(marketInfo, marketToken, amount) ==
  LET price == IF marketToken.totalSupply = 0
               THEN expandDecimals(USD_DECIMALS)
               ELSE TruncDiv(marketInfo.poolValueMax * expandDecimals(marketToken.decimals),
                             marketToken.totalSupply)
  IN  convertToUsd(amount, marketToken.decimals, price)

----------------------------------------------------------------------------
(* getDepositAmounts (domain/synthetics/trade/utils/deposit.ts)           *)

\* the fields of DepositAmounts
Fields ==
  {"longTokenAmount", "longTokenUsd", "shortTokenAmount", "shortTokenUsd",
   "marketTokenAmount", "marketTokenUsd", "swapFeeUsd", "uiFeeUsd",
   "swapPriceImpactDeltaUsd"}

\* const values: DepositAmounts = { ... all 0n }
ZeroValues == [f \in Fields |-> Num(0)]

\* What a call leaves behind: how it ended, the values it returned, the
\* long/short USD split before fees were redistributed (byMarketToken) and
\* the steps it evaluated.
Returned(values, pre, steps, intermediates) ==
  IF \E f \in Fields : values[f].k = "throw"
     \/ \E i \in 1..Len(intermediates) : intermediates[i].k = "throw"
  THEN [outcome |-> "throws", values |-> [f \in Fields |-> Thrown],
        pre |-> pre, steps |-> steps]
  ELSE [outcome |-> "returns", values |-> values, pre |-> pre, steps |-> steps]

\* a side of byCollaterals that was skipped: nothing charged, nothing minted
NoSide ==
  [called |-> FALSE, amount |-> Num(0), priceImpactDeltaUsd |-> Num(0),
   swapFeeUsd |-> Num(0), uiFeeUsd |-> Num(0), mint |-> Num(0), steps |-> {}]

\* What a call computed on its way and does not return: the long/short split
\* of marketTokenUsd before fees (byMarketToken), the total fee and the parts
\* after the fee redistribution (byMarketToken), and what each side of
\* byCollaterals passed to and got from getMarketTokenAmountByCollateral.
NoSplit ==
  [longTokenUsd |-> Num(0), shortTokenUsd |-> Num(0), marketTokenUsd |-> Num(0),
   totalFee |-> Num(0),
   afterFees |-> [longTokenUsd |-> Num(0), shortTokenUsd |-> Num(0)],
   sides |-> [long |-> NoSide, short |-> NoSide]]

\* let amountInAfterFees = amount - swapFeeAmount - uiFeeAmount, the fees
\* converted to tokenIn at its minimum price
AmountInAfterFees(tokenIn, amount, swapFeeUsd, uiFeeUsd) ==
  LET swapFeeAmount == convertToTokenAmount(swapFeeUsd, tokenIn.decimals,
                                            tokenIn.prices.minPrice)
      uiFeeAmount == convertToTokenAmount(uiFeeUsd, tokenIn.decimals,
                                          tokenIn.prices.minPrice)
  IN  Sub(Sub(amount, swapFeeAmount), uiFeeAmount)

\* InputMint valuing the input at the maximum price
InputMint_maxPrice(marketInfo, marketToken, tokenIn, amountIn) ==
  usdToMarketTokenAmount(marketInfo, marketToken,
    convertToUsd(amountIn, tokenIn.decimals, tokenIn.prices.maxPrice))

\* usdToMarketTokenAmount(marketInfo, marketToken, usdValue) with
\* usdValue = convertToUsd(amountInAfterFees, tokenIn.decimals, tokenIn.prices.minPrice)
InputMint(marketInfo, marketToken, tokenIn, amountIn) ==
  usdToMarketTokenAmount(marketInfo, marketToken,
    convertToUsd(amountIn, tokenIn.decimals, tokenIn.prices.minPrice))

\* BonusMint taking the bonus out of what the input mints
BonusMint_charged(marketInfo, marketToken, tokenOut, priceImpactDeltaUsd) ==
  Neg(usdToMarketTokenAmount(marketInfo, marketToken,
        convertToUsd(applySwapImpactWithCap(marketInfo, tokenOut, priceImpactDeltaUsd),
                     tokenOut.decimals, tokenOut.prices.maxPrice)))

\* if (priceImpactDeltaUsd > 0) { ... }: the market tokens minted for the
\* capped bonus amount of tokenOut, valued at tokenOut's maximum price
BonusMint(marketInfo, marketToken, tokenOut, priceImpactDeltaUsd) ==
  LET positiveImpactAmount ==
        applySwapImpactWithCap(marketInfo, tokenOut, priceImpactDeltaUsd)
      usdValue == convertToUsd(positiveImpactAmount, tokenOut.decimals,
                               tokenOut.prices.maxPrice)
  IN  usdToMarketTokenAmount(marketInfo, marketToken, usdValue)

\* ApplyNegativeImpact taking the impact amount off with the wrong sign
ApplyNegativeImpact_subtracted(marketInfo, tokenIn, amountInAfterFees, priceImpactDeltaUsd) ==
  Sub(amountInAfterFees, applySwapImpactWithCap(marketInfo, tokenIn, priceImpactDeltaUsd))

\* else { ... }: amountInAfterFees = amountInAfterFees + negativeImpactAmount
ApplyNegativeImpact(marketInfo, tokenIn, amountInAfterFees, priceImpactDeltaUsd) ==
  LET negativeImpactAmount ==
        applySwapImpactWithCap(marketInfo, tokenIn, priceImpactDeltaUsd)
  IN  Add(amountInAfterFees, negativeImpactAmount)

\* function getMarketTokenAmountByCollateral(p)
getMarketTokenAmountByCollateral(marketInfo, marketToken, tokenIn, tokenOut, amount, priceImpactDeltaUsd, swapFeeUsd, uiFeeUsd) ==
  LET amountInAfterFees == AmountInAfterFees(tokenIn, amount, swapFeeUsd, uiFeeUsd)
  IN  IF Gt0(priceImpactDeltaUsd)
      THEN LET bonusMint ==
                 Add(Num(0), BonusMint(marketInfo, marketToken, tokenOut,
                                       priceImpactDeltaUsd))
           IN  Add(bonusMint, InputMint(marketInfo, marketToken, tokenIn,
                                        amountInAfterFees))
      ELSE LET adjusted == ApplyNegativeImpact(marketInfo, tokenIn, amountInAfterFees,
                                               priceImpactDeltaUsd)
           IN  Add(Num(0), InputMint(marketInfo, marketToken, tokenIn, adjusted))

\* IsZeroCollateralInput with the early return lost
IsZeroCollateralInput_lost(p) == FALSE

\* if (longTokenAmount == 0n && shortTokenAmount == 0n) return values
IsZeroCollateralInput(p) == p.longTokenAmount = 0 /\ p.shortTokenAmount = 0

\* IsZeroMarketTokenInput with the early return lost
IsZeroMarketTokenInput_lost(p) == FALSE

\* if (marketTokenAmount == 0n) return values
IsZeroMarketTokenInput(p) == p.marketTokenAmount = 0

\* UiFeeUsd charging what the factor leaves instead of what it takes
UiFeeUsd_complement(usd, uiFeeFactor) == applyFactor(usd, PRECISION - uiFeeFactor)

\* const uiFeeUsd = applyFactor(<notional usd>, uiFeeFactor)
UiFeeUsd(usd, uiFeeFactor) == applyFactor(usd, uiFeeFactor)

\* SwapFeeUsd charging the swap fee on a shift too
SwapFeeUsd_shiftCharged(p, usd, impactUsd) ==
  getSwapFee(p.marketInfo, usd, Gt0(impactUsd))

\* const swapFeeUsd = p.forShift ? 0n : getSwapFee(marketInfo, <notional usd>,
\* values.swapPriceImpactDeltaUsd > 0)
SwapFeeUsd(p, usd, impactUsd) ==
  IF p.forShift THEN Num(0)
  ELSE getSwapFee(p.marketInfo, usd, Gt0(impactUsd))

\* One side of byCollaterals, if (values.<side>TokenUsd > 0) { ... }: the
\* side's swap fee, UI fee and minted market tokens
CollateralSide(p, tokenIn, tokenOut, amount, sideUsd, impactUsd, totalDepositUsd) ==
  IF Gt0(sideUsd)
  THEN LET swapFeeUsd == SwapFeeUsd(p, sideUsd, impactUsd)
           uiFeeUsd == UiFeeUsd(sideUsd, p.uiFeeFactor)
           priceImpactDeltaUsd == mulDiv(impactUsd, sideUsd, totalDepositUsd)
       IN  [called |-> TRUE,
            amount |-> amount,
            priceImpactDeltaUsd |-> priceImpactDeltaUsd,
            swapFeeUsd |-> swapFeeUsd,
            uiFeeUsd |-> uiFeeUsd,
            mint |-> getMarketTokenAmountByCollateral(
                       p.marketInfo, p.marketToken, tokenIn, tokenOut, amount,
                       priceImpactDeltaUsd, swapFeeUsd, uiFeeUsd),
            steps |-> {"fee", "mint"}]
  ELSE NoSide

\* WrapVault overwriting marketTokenAmount whatever the conversion gives
WrapVault_unguarded(p, values) ==
  IF p.vaultInfo.present
  THEN [values EXCEPT !.marketTokenAmount =
          convertToTokenAmount(values.marketTokenUsd, p.vaultInfo.indexToken.decimals,
                               p.vaultInfo.indexToken.prices.maxPrice)]
  ELSE values

\* if (vaultInfo) { ... }: the minted market tokens restated in vault tokens
WrapVault(p, values) ==
  IF p.vaultInfo.present
  THEN LET glvPrice == p.vaultInfo.indexToken.prices.maxPrice
           marketTokenUsd ==
             IF p.isMarketTokenDeposit
             THEN convertToUsd(values.longTokenAmount, p.longToken.decimals,
                               p.longToken.prices.minPrice)
             ELSE values.marketTokenUsd
           glvAmount == convertToTokenAmount(marketTokenUsd,
                                             p.vaultInfo.indexToken.decimals, glvPrice)
       IN  IF glvAmount.k # "undef" /\ Gt0(glvAmount)
           THEN [values EXCEPT !.marketTokenAmount = glvAmount]
           ELSE values
  ELSE values

\* CollateralsVaultShortcut converting back to USD at the vault's maximum
\* index price
CollateralsVaultShortcut_mixedLegs(p, values) ==
  LET idx == p.vaultInfo.indexToken
      gmTokenUsd == convertToUsd(Num(p.longTokenAmount), p.longToken.decimals,
                                 getMidPrice(p.longToken.prices))
      glvTokenAmount == Coalesce0(convertToTokenAmount(gmTokenUsd, idx.decimals,
                                                       idx.prices.minPrice))
      glvTokenUsd == Coalesce0(convertToUsd(glvTokenAmount, idx.decimals,
                                            idx.prices.maxPrice))
  IN  [values EXCEPT !.marketTokenAmount = glvTokenAmount,
                     !.marketTokenUsd = glvTokenUsd]

\* CollateralsVaultShortcut converting at the vault's maximum index price
CollateralsVaultShortcut_maxPrice(p, values) ==
  LET idx == p.vaultInfo.indexToken
      gmTokenUsd == convertToUsd(Num(p.longTokenAmount), p.longToken.decimals,
                                 getMidPrice(p.longToken.prices))
      glvTokenAmount == Coalesce0(convertToTokenAmount(gmTokenUsd, idx.decimals,
                                                       idx.prices.maxPrice))
      glvTokenUsd == Coalesce0(convertToUsd(glvTokenAmount, idx.decimals,
                                            idx.prices.maxPrice))
  IN  [values EXCEPT !.marketTokenAmount = glvTokenAmount,
                     !.marketTokenUsd = glvTokenUsd]

\* if (isMarketTokenDeposit && vaultInfo) { ... return values } of byCollaterals
CollateralsVaultShortcut(p, values) ==
  LET idx == p.vaultInfo.indexToken
      gmTokenUsd == convertToUsd(Num(p.longTokenAmount), p.longToken.decimals,
                                 getMidPrice(p.longToken.prices))
      glvTokenAmount == Coalesce0(convertToTokenAmount(gmTokenUsd, idx.decimals,
                                                       idx.prices.minPrice))
      glvTokenUsd == Coalesce0(convertToUsd(glvTokenAmount, idx.decimals,
                                            idx.prices.minPrice))
  IN  [values EXCEPT !.marketTokenAmount = glvTokenAmount,
                     !.marketTokenUsd = glvTokenUsd]

\* strategy === "byCollaterals"
ByCollaterals(p) ==
  IF IsZeroCollateralInput(p) THEN Returned(ZeroValues, NoSplit, {}, <<>>)
  ELSE
  LET longTokenPrice == getMidPrice(p.longToken.prices)
      shortTokenPrice == getMidPrice(p.shortToken.prices)
      v1 == [ZeroValues EXCEPT
               !.longTokenAmount = Num(p.longTokenAmount),
               !.longTokenUsd = convertToUsd(Num(p.longTokenAmount),
                                             p.longToken.decimals, longTokenPrice)]
  IN
  IF p.isMarketTokenDeposit /\ p.vaultInfo.present
  THEN Returned(CollateralsVaultShortcut(p, v1), NoSplit, {"vaultShortcut"}, <<>>)
  ELSE
  LET shortTokenUsd == convertToUsd(Num(p.shortTokenAmount), p.shortToken.decimals,
                                    shortTokenPrice)
      impactUsd == getPriceImpactForSwap(p.marketInfo, p.longToken, p.shortToken,
                                         v1.longTokenUsd, shortTokenUsd)
      totalDepositUsd == Add(v1.longTokenUsd, shortTokenUsd)
      long == CollateralSide(p, p.longToken, p.shortToken, v1.longTokenAmount,
                             v1.longTokenUsd, impactUsd, totalDepositUsd)
      short == CollateralSide(p, p.shortToken, p.longToken, Num(p.shortTokenAmount),
                              shortTokenUsd, impactUsd, totalDepositUsd)
      marketTokenAmount == Add(Add(Num(0), long.mint), short.mint)
      v2 == [v1 EXCEPT
               !.shortTokenAmount = Num(p.shortTokenAmount),
               !.shortTokenUsd = shortTokenUsd,
               !.swapPriceImpactDeltaUsd = impactUsd,
               !.swapFeeUsd = Add(Add(Num(0), long.swapFeeUsd), short.swapFeeUsd),
               !.uiFeeUsd = Add(Add(Num(0), long.uiFeeUsd), short.uiFeeUsd),
               !.marketTokenAmount = marketTokenAmount,
               !.marketTokenUsd = convertToUsd(marketTokenAmount, p.marketToken.decimals,
                                               p.marketToken.prices.minPrice)]
  IN  Returned(WrapVault(p, v2),
               [NoSplit EXCEPT !.sides = [long |-> long, short |-> short]],
               {"priceImpact"} \cup long.steps \cup short.steps,
               <<totalDepositUsd>>)

\* RequestedMarketTokenAmount with the UI fee taken out of the requested amount
RequestedMarketTokenAmount_netOfFee(p) ==
  Sub(Num(p.marketTokenAmount), applyFactor(Num(p.marketTokenAmount), p.uiFeeFactor))

\* values.marketTokenAmount = marketTokenAmount (byMarketToken)
RequestedMarketTokenAmount(p) == Num(p.marketTokenAmount)

\* RequestedMarketTokenUsd valuing the amount by the market's pricing, vault or not
RequestedMarketTokenUsd_marketPricing(p) ==
  marketTokenAmountToUsd(p.marketInfo, p.marketToken, Num(p.marketTokenAmount))

\* values.marketTokenUsd of byMarketToken: at the vault's minimum index price
\* when a vault wraps the market, else by the market's pricing
RequestedMarketTokenUsd(p) ==
  IF p.vaultInfo.present
  THEN convertToUsd(Num(p.marketTokenAmount), p.vaultInfo.indexToken.decimals,
                    p.vaultInfo.indexToken.prices.minPrice)
  ELSE marketTokenAmountToUsd(p.marketInfo, p.marketToken, Num(p.marketTokenAmount))

\* ShiftSplit rounding each side's share up instead of down
ShiftSplit_roundedUp(p, marketTokenUsd) ==
  LET longPoolUsd == convertToUsd(Num(p.marketInfo.longPoolAmount), p.longToken.decimals,
                                  p.longToken.prices.maxPrice)
      shortPoolUsd == convertToUsd(Num(p.marketInfo.shortPoolAmount), p.shortToken.decimals,
                                   p.shortToken.prices.maxPrice)
      totalPoolUsd == Add(longPoolUsd, shortPoolUsd)
      longTokenUsd == mulDiv(marketTokenUsd, longPoolUsd, totalPoolUsd)
      shortTokenUsd == mulDiv(marketTokenUsd, shortPoolUsd, totalPoolUsd)
      exactLong == IsNum(longTokenUsd)
                     => longTokenUsd.n * totalPoolUsd.n = marketTokenUsd.n * longPoolUsd.n
      exactShort == IsNum(shortTokenUsd)
                      => shortTokenUsd.n * totalPoolUsd.n = marketTokenUsd.n * shortPoolUsd.n
  IN  [longTokenUsd |-> IF exactLong THEN longTokenUsd ELSE Add(longTokenUsd, Num(1)),
       shortTokenUsd |-> IF exactShort THEN shortTokenUsd ELSE Add(shortTokenUsd, Num(1)),
       marketTokenUsd |-> marketTokenUsd]

\* ShiftSplit giving the short side what the long side leaves, as the split by
\* the previous holdings does
ShiftSplit_remainder(p, marketTokenUsd) ==
  LET longPoolUsd == convertToUsd(Num(p.marketInfo.longPoolAmount), p.longToken.decimals,
                                  p.longToken.prices.maxPrice)
      shortPoolUsd == convertToUsd(Num(p.marketInfo.shortPoolAmount), p.shortToken.decimals,
                                   p.shortToken.prices.maxPrice)
      totalPoolUsd == Add(longPoolUsd, shortPoolUsd)
      longTokenUsd == mulDiv(marketTokenUsd, longPoolUsd, totalPoolUsd)
  IN  [longTokenUsd |-> longTokenUsd,
       shortTokenUsd |-> Sub(marketTokenUsd, longTokenUsd),
       marketTokenUsd |-> marketTokenUsd]

\* if (p.forShift) { ... }: the split by the pool's composition
ShiftSplit(p, marketTokenUsd) ==
  LET longPoolUsd == convertToUsd(Num(p.marketInfo.longPoolAmount), p.longToken.decimals,
                                  p.longToken.prices.maxPrice)
      shortPoolUsd == convertToUsd(Num(p.marketInfo.shortPoolAmount), p.shortToken.decimals,
                                   p.shortToken.prices.maxPrice)
      totalPoolUsd == Add(longPoolUsd, shortPoolUsd)
  IN  [longTokenUsd |-> mulDiv(marketTokenUsd, longPoolUsd, totalPoolUsd),
       shortTokenUsd |-> mulDiv(marketTokenUsd, shortPoolUsd, totalPoolUsd),
       marketTokenUsd |-> marketTokenUsd]

\* PrevHoldingsSplit flooring the short part on its own, as the shift split does
PrevHoldingsSplit_bothFloored(marketTokenUsd, prevLongTokenUsd, prevSumUsd) ==
  [longTokenUsd |-> mulDiv(marketTokenUsd, prevLongTokenUsd, prevSumUsd),
   shortTokenUsd |-> mulDiv(marketTokenUsd, Sub(prevSumUsd, prevLongTokenUsd), prevSumUsd),
   marketTokenUsd |-> marketTokenUsd]

\* else if (includeLongToken && includeShortToken && prevSumUsd > 0) { ... }:
\* the split by the previous holdings
PrevHoldingsSplit(marketTokenUsd, prevLongTokenUsd, prevSumUsd) ==
  LET longTokenUsd == mulDiv(marketTokenUsd, prevLongTokenUsd, prevSumUsd)
  IN  [longTokenUsd |-> longTokenUsd,
       shortTokenUsd |-> Sub(marketTokenUsd, longTokenUsd),
       marketTokenUsd |-> marketTokenUsd]

\* SplitUsd giving the long side everything when no side is included
SplitUsd_neitherToLong(p, marketTokenUsd, prevLongTokenUsd, prevSumUsd) ==
  IF p.forShift THEN ShiftSplit(p, marketTokenUsd)
  ELSE IF p.includeLongToken /\ p.includeShortToken /\ Gt0(prevSumUsd)
  THEN PrevHoldingsSplit(marketTokenUsd, prevLongTokenUsd, prevSumUsd)
  ELSE IF p.includeShortToken /\ ~p.includeLongToken
  THEN [longTokenUsd |-> Num(0), shortTokenUsd |-> marketTokenUsd,
        marketTokenUsd |-> marketTokenUsd]
  ELSE [longTokenUsd |-> marketTokenUsd, shortTokenUsd |-> Num(0),
        marketTokenUsd |-> marketTokenUsd]

\* SplitUsd splitting by the previous holdings whatever the include flags are
SplitUsd_flagsIgnored(p, marketTokenUsd, prevLongTokenUsd, prevSumUsd) ==
  IF p.forShift THEN ShiftSplit(p, marketTokenUsd)
  ELSE IF Gt0(prevSumUsd)
  THEN PrevHoldingsSplit(marketTokenUsd, prevLongTokenUsd, prevSumUsd)
  ELSE [longTokenUsd |-> marketTokenUsd, shortTokenUsd |-> Num(0),
        marketTokenUsd |-> marketTokenUsd]

\* the if / else if chain that splits marketTokenUsd into a long and a short part
SplitUsd(p, marketTokenUsd, prevLongTokenUsd, prevSumUsd) ==
  IF p.forShift THEN ShiftSplit(p, marketTokenUsd)
  ELSE IF p.includeLongToken /\ p.includeShortToken /\ Gt0(prevSumUsd)
  THEN PrevHoldingsSplit(marketTokenUsd, prevLongTokenUsd, prevSumUsd)
  ELSE IF p.includeLongToken
  THEN [longTokenUsd |-> marketTokenUsd, shortTokenUsd |-> Num(0),
        marketTokenUsd |-> marketTokenUsd]
  ELSE IF p.includeShortToken
  THEN [longTokenUsd |-> Num(0), shortTokenUsd |-> marketTokenUsd,
        marketTokenUsd |-> marketTokenUsd]
  ELSE [longTokenUsd |-> Num(0), shortTokenUsd |-> Num(0),
        marketTokenUsd |-> marketTokenUsd]

\* FeeShare charging each side the whole fee
FeeShare_whole(totalFee, sideUsd, totalDepositUsd) == totalFee

\* bigMath.mulDiv(totalFee, values.<side>TokenUsd, totalDepositUsd): a side's
\* share of the total fee
FeeShare(totalFee, sideUsd, totalDepositUsd) ==
  mulDiv(totalFee, sideUsd, totalDepositUsd)

\* ImpactShare passing the signed impact on, not its magnitude
ImpactShare_signed(impactUsd, sideUsd, totalDepositUsd) ==
  mulDiv(impactUsd, sideUsd, totalDepositUsd)

\* bigMath.mulDiv(-values.swapPriceImpactDeltaUsd, values.<side>TokenUsd,
\* totalDepositUsd): a side's share of the magnitude of a negative impact
ImpactShare(impactUsd, sideUsd, totalDepositUsd) ==
  mulDiv(Neg(impactUsd), sideUsd, totalDepositUsd)

\* if (totalDepositUsd > 0) { ... }: the fees, then the magnitude of a negative
\* price impact, added to both parts in proportion
Redistribute(split, totalFee, impactUsd) ==
  LET totalDepositUsd == Add(split.longTokenUsd, split.shortTokenUsd)
  IN  IF Gt0(totalDepositUsd)
      THEN LET long1 == Add(split.longTokenUsd,
                            FeeShare(totalFee, split.longTokenUsd, totalDepositUsd))
               short1 == Add(split.shortTokenUsd,
                             FeeShare(totalFee, split.shortTokenUsd, totalDepositUsd))
               total1 == Add(long1, short1)
           IN  IF Lt0(impactUsd) /\ Gt0(total1)
               THEN [longTokenUsd |-> Add(long1, ImpactShare(impactUsd, long1, total1)),
                     shortTokenUsd |-> Add(short1, ImpactShare(impactUsd, short1, total1)),
                     afterFees |-> [longTokenUsd |-> long1, shortTokenUsd |-> short1],
                     intermediates |-> <<totalDepositUsd, total1>>]
               ELSE [longTokenUsd |-> long1, shortTokenUsd |-> short1,
                     afterFees |-> [longTokenUsd |-> long1, shortTokenUsd |-> short1],
                     intermediates |-> <<totalDepositUsd, total1>>]
      ELSE [longTokenUsd |-> split.longTokenUsd, shortTokenUsd |-> split.shortTokenUsd,
            afterFees |-> [longTokenUsd |-> split.longTokenUsd,
                           shortTokenUsd |-> split.shortTokenUsd],
            intermediates |-> <<totalDepositUsd>>]

\* if (isMarketTokenDeposit && vaultInfo) { ... return values } of byMarketToken
MarketTokenVaultShortcut(p, values) ==
  [values EXCEPT !.longTokenAmount =
     convertToTokenAmount(values.marketTokenUsd, p.marketToken.decimals,
                          p.marketToken.prices.minPrice)]

\* strategy === "byMarketToken"
ByMarketToken(p) ==
  IF IsZeroMarketTokenInput(p) THEN Returned(ZeroValues, NoSplit, {}, <<>>)
  ELSE
  LET longTokenPrice == getMidPrice(p.longToken.prices)
      shortTokenPrice == getMidPrice(p.shortToken.prices)
      v1 == [ZeroValues EXCEPT !.marketTokenAmount = RequestedMarketTokenAmount(p),
                               !.marketTokenUsd = RequestedMarketTokenUsd(p)]
  IN
  IF p.isMarketTokenDeposit /\ p.vaultInfo.present
  THEN Returned(MarketTokenVaultShortcut(p, v1), NoSplit, {"vaultShortcut"}, <<>>)
  ELSE
  LET prevLongTokenUsd == convertToUsd(Num(p.longTokenAmount), p.longToken.decimals,
                                       longTokenPrice)
      prevShortTokenUsd == convertToUsd(Num(p.shortTokenAmount), p.shortToken.decimals,
                                        shortTokenPrice)
      prevSumUsd == Add(prevLongTokenUsd, prevShortTokenUsd)
      split == SplitUsd(p, v1.marketTokenUsd, prevLongTokenUsd, prevSumUsd)
      impactUsd == getPriceImpactForSwap(p.marketInfo, p.longToken, p.shortToken,
                                         split.longTokenUsd, split.shortTokenUsd)
      swapFeeUsd == Add(Num(0), SwapFeeUsd(p, v1.marketTokenUsd, impactUsd))
      uiFeeUsd == Add(Num(0), UiFeeUsd(v1.marketTokenUsd, p.uiFeeFactor))
      totalFee == Add(swapFeeUsd, uiFeeUsd)
      final == Redistribute(split, totalFee, impactUsd)
      v2 == [v1 EXCEPT
               !.swapPriceImpactDeltaUsd = impactUsd,
               !.swapFeeUsd = swapFeeUsd,
               !.uiFeeUsd = uiFeeUsd,
               !.longTokenUsd = final.longTokenUsd,
               !.shortTokenUsd = final.shortTokenUsd,
               !.longTokenAmount = convertToTokenAmount(final.longTokenUsd,
                                     p.longToken.decimals, longTokenPrice),
               !.shortTokenAmount = convertToTokenAmount(final.shortTokenUsd,
                                      p.shortToken.decimals, shortTokenPrice)]
  IN  Returned(v2,
               [NoSplit EXCEPT !.longTokenUsd = split.longTokenUsd,
                               !.shortTokenUsd = split.shortTokenUsd,
                               !.marketTokenUsd = split.marketTokenUsd,
                               !.totalFee = totalFee,
                               !.afterFees = final.afterFees],
               {"split", "priceImpact", "fee"},
               <<prevSumUsd, totalFee>> \o final.intermediates)

\* export function getDepositAmounts(p): DepositAmounts
getDepositAmounts(p) ==
  IF p.strategy = "byCollaterals" THEN ByCollaterals(p) ELSE ByMarketToken(p)

----------------------------------------------------------------------------
(* Requests *)

Token(isLong, decimals, minPrice, maxPrice) ==
  [isLong |-> isLong, decimals |-> decimals,
   prices |-> [minPrice |-> minPrice, maxPrice |-> maxPrice]]

MarketToken(decimals, minPrice, totalSupply) ==
  [decimals |-> decimals, prices |-> [minPrice |-> minPrice, maxPrice |-> minPrice],
   totalSupply |-> totalSupply]

MarketInfo(longPool, shortPool, poolValueMax, feePos, feeNeg, impactPos, impactNeg, impactPool) ==
  [longPoolAmount |-> longPool, shortPoolAmount |-> shortPool,
   poolValueMax |-> poolValueMax,
   swapFeeFactorForPositiveImpact |-> feePos,
   swapFeeFactorForNegativeImpact |-> feeNeg,
   swapImpactFactorPositive |-> impactPos,
   swapImpactFactorNegative |-> impactNeg,
   swapImpactPoolAmountLong |-> impactPool,
   swapImpactPoolAmountShort |-> impactPool]

\* The snapshots of a market a request is quoted against: a balanced pool
\* without fees, a long-heavy pool with fees and a bid/ask spread, an empty
\* pool that minted nothing yet, charges no fee and has no price impact but a
\* spread on its short token, and a market whose long token and market token
\* have no price.
Markets ==
  { [marketInfo |-> MarketInfo(10, 10, 200, 0, 0, 1, 2, 5),
     marketToken |-> MarketToken(0, 10, 20),
     longToken |-> Token(TRUE, 0, 10, 10),
     shortToken |-> Token(FALSE, 0, 10, 10)],
    [marketInfo |-> MarketInfo(300, 1, 300, 1, 2, 2, 8, 1),
     marketToken |-> MarketToken(0, 1, 300),
     longToken |-> Token(TRUE, 1, 8, 12),
     shortToken |-> Token(FALSE, 0, 10, 10)],
    [marketInfo |-> MarketInfo(0, 0, 0, 0, 0, 0, 0, 0),
     marketToken |-> MarketToken(1, 10, 0),
     longToken |-> Token(TRUE, 0, 10, 10),
     shortToken |-> Token(FALSE, 1, 9, 11)],
    [marketInfo |-> MarketInfo(10, 10, 200, 1, 1, 1, 2, 5),
     marketToken |-> MarketToken(0, 0, 20),
     longToken |-> Token(TRUE, 0, 0, 0),
     shortToken |-> Token(FALSE, 0, 10, 10)] }

NoVault == [present |-> FALSE, indexToken |-> Token(FALSE, 0, 0, 0)]

\* no vault, a vault whose index token is priced, its base unit worth a
\* fractional number of USD units, and a vault without a price
Vaults ==
  { NoVault,
    [present |-> TRUE, indexToken |-> Token(FALSE, 1, 47, 60)],
    [present |-> TRUE, indexToken |-> Token(FALSE, 0, 0, 0)] }

Amounts == {a * AmountUnit : a \in 0..MaxAmount}

UiFeeFactors == 0..MaxUiFeeFactor

Strategies == {"byCollaterals", "byMarketToken"}

\* the arguments of getDepositAmounts
Requests ==
  { [marketInfo |-> m.marketInfo, marketToken |-> m.marketToken,
     longToken |-> m.longToken, shortToken |-> m.shortToken,
     longTokenAmount |-> la, shortTokenAmount |-> sa, marketTokenAmount |-> ma,
     strategy |-> st, includeLongToken |-> il, includeShortToken |-> is,
     uiFeeFactor |-> f, forShift |-> fs, isMarketTokenDeposit |-> md,
     vaultInfo |-> v] :
    m \in Markets, la \in Amounts, sa \in Amounts, ma \in Amounts,
    st \in Strategies, il \in BOOLEAN, is \in BOOLEAN, f \in UiFeeFactors,
    fs \in BOOLEAN, md \in BOOLEAN, v \in Vaults }

\* A deposit of 100 market tokens priced 1.00 USD into a vault whose index
\* token is priced 2.00 USD, both with 0 decimals, with a UI fee factor set
GmToGlvExample ==
  [marketInfo |-> MarketInfo(10, 10, 200, 1, 2, 1, 2, 5),
   marketToken |-> MarketToken(0, 10, 20),
   longToken |-> Token(TRUE, 0, 1 * expandDecimals(USD_DECIMALS),
                       1 * expandDecimals(USD_DECIMALS)),
   shortToken |-> Token(FALSE, 0, 10, 10),
   longTokenAmount |-> 100, shortTokenAmount |-> 0, marketTokenAmount |-> 0,
   strategy |-> "byCollaterals", includeLongToken |-> TRUE,
   includeShortToken |-> FALSE, uiFeeFactor |-> 1, forShift |-> FALSE,
   isMarketTokenDeposit |-> TRUE,
   vaultInfo |-> [present |-> TRUE,
                  indexToken |-> Token(FALSE, 0, 2 * expandDecimals(USD_DECIMALS),
                                       2 * expandDecimals(USD_DECIMALS))]]

\* 1000 long tokens (1 decimal) and 1000 short tokens (0 decimals), both
\* priced 1.00 USD, deposited into a balanced pool without fees whose market
\* token mints at 1.00 USD
BalancedDepositExample ==
  [marketInfo |-> MarketInfo(1000, 100, 2000, 0, 0, 1, 2, 5),
   marketToken |-> MarketToken(0, 1 * expandDecimals(USD_DECIMALS), 200),
   longToken |-> Token(TRUE, 1, 1 * expandDecimals(USD_DECIMALS),
                       1 * expandDecimals(USD_DECIMALS)),
   shortToken |-> Token(FALSE, 0, 1 * expandDecimals(USD_DECIMALS),
                        1 * expandDecimals(USD_DECIMALS)),
   longTokenAmount |-> 1000 * expandDecimals(1),
   shortTokenAmount |-> 1000 * expandDecimals(0),
   marketTokenAmount |-> 0,
   strategy |-> "byCollaterals", includeLongToken |-> TRUE,
   includeShortToken |-> TRUE, uiFeeFactor |-> 0, forShift |-> FALSE,
   isMarketTokenDeposit |-> FALSE, vaultInfo |-> NoVault]

----------------------------------------------------------------------------
(* useWsProvider (lib/rpc): the websocket provider hook *)

\* const WS_MAX_BLOCK_UPDATE_DELAY = 1000 * 5
WS_MAX_BLOCK_UPDATE_DELAY == 5000

\* const WS_HEALTH_CHECK_INTERVAL = 1000
WS_HEALTH_CHECK_INTERVAL == 1000

\* the chain ids the hook is used with: one served over a websocket, one
\* served by a polling JSON-RPC provider, one createWsProvider does not know
ChainIds == {"ARBITRUM", "AVALANCHE_FUJI", "UNSUPPORTED"}

\* export function createWsProvider(chainId): the kind of provider it makes
createWsProvider(chainId) ==
  IF chainId = "ARBITRUM" THEN "WebSocketProvider"
  ELSE IF chainId = "AVALANCHE_FUJI" THEN "JsonRpcProvider"
  ELSE "undefined"

\* export function isWebsocketProvider(provider)
isWebsocketProvider(provider) == provider.kind = "WebSocketProvider"

\* WS_PROVIDERS_CACHE[chainId] === undefined, provider === undefined
NoProvider == 0

\* WS_LAST_BLOCK_UPDATED_AT[chainId] === undefined
NoTimestamp == 0

\* Date.now() when the page loads, a positive number of milliseconds
StartTime == WS_HEALTH_CHECK_INTERVAL

\* a stretch of time without events, long enough to make every recorded
\* block update older than WS_MAX_BLOCK_UPDATE_DELAY
Silence == WS_MAX_BLOCK_UPDATE_DELAY + WS_HEALTH_CHECK_INTERVAL

\* two components call useWsProvider at the same time
NumHooks == 2

\* the hook instances rendered at the same time
Hooks == 1..NumHooks

\* a provider fresh from initializeProvider: not connected yet, its block
\* listener and onclose handler attached, the first health-check timer set
NewProvider(chainId, owner) ==
  [chainId |-> chainId, owner |-> owner, kind |-> createWsProvider(chainId),
   wsReady |-> FALSE, closed |-> FALSE, timers |-> 1, reported |-> FALSE]

\* setNeedToReconnect dropping the request
setNeedToReconnect_dropped(hs, i, value) == hs

\* setNeedToReconnect(value) on hook instance i: a changed state renders the
\* component again and, needToReconnect being a dependency, runs the effect
setNeedToReconnect(hs, i, value) ==
  IF hs[i].needToReconnect = value THEN hs
  ELSE [hs EXCEPT ![i].needToReconnect = value, ![i].effect = TRUE]

\* the condition of the health check that reports a failure
HealthCheckFails(provider, lastBlockUpdatedAt, dateNow) ==
  \/ ~provider.wsReady
  \/ lastBlockUpdatedAt = NoTimestamp
  \/ dateNow - lastBlockUpdatedAt > WS_MAX_BLOCK_UPDATE_DELAY

\* what the hook returns: if (!active) return undefined; return provider
useWsProvider(h) == IF ~h.active THEN NoProvider ELSE h.provider

----------------------------------------------------------------------------
(* The state machine *)

VARIABLES
  request,    \* the arguments of the next or the last call of getDepositAmounts
  quote,      \* what the last call left behind, NoQuote before the first call
  previous,   \* the UI fee factor and the quote of the call before the last
  WS_PROVIDERS_CACHE,        \* chainId -> the cached provider, or NoProvider
  WS_LAST_BLOCK_UPDATED_AT,  \* chainId -> Date.now() of the last update, or NoTimestamp
  hooks,      \* the state and the props of each rendered useWsProvider
  providers,  \* the providers initializeProvider created, in order of creation
  now         \* Date.now()

depositVars == <<request, quote, previous>>

wsVars == <<WS_PROVIDERS_CACHE, WS_LAST_BLOCK_UPDATED_AT, hooks, providers, now>>

vars == <<request, quote, previous,
          WS_PROVIDERS_CACHE, WS_LAST_BLOCK_UPDATED_AT, hooks, providers, now>>

NoQuote == [outcome |-> "none", values |-> ZeroValues, pre |-> NoSplit, steps |-> {}]

Init ==
  /\ request \in Requests
  /\ quote = NoQuote
  /\ previous = [uiFeeFactor |-> 0, quote |-> NoQuote]
  /\ WS_PROVIDERS_CACHE = [c \in ChainIds |-> NoProvider]
  /\ WS_LAST_BLOCK_UPDATED_AT = [c \in ChainIds |-> NoTimestamp]
  /\ hooks = <<>>
  /\ providers = <<>>
  /\ now = StartTime

\* getDepositAmounts(request) is called
Quote ==
  /\ quote.outcome = "none"
  /\ quote' = getDepositAmounts(request)
  /\ UNCHANGED <<request, previous, wsVars>>

\* the UI fee factor changes, everything else stays, and the amounts are
\* computed again
ChangeUiFeeFactor ==
  /\ quote.outcome # "none"
  /\ \E f \in UiFeeFactors :
       /\ f # request.uiFeeFactor
       /\ request' = [request EXCEPT !.uiFeeFactor = f]
       /\ previous' = [uiFeeFactor |-> request.uiFeeFactor, quote |-> quote]
       /\ quote' = getDepositAmounts(request')
  /\ UNCHANGED wsVars

Next == Quote \/ ChangeUiFeeFactor

Spec == Init /\ [][Next]_vars

----------------------------------------------------------------------------
(* useWsProvider: the state machine *)

\* the module is loaded and the hooks are rendered for the first time, each
\* with its props; no effect has run yet
WsInit ==
  /\ WS_PROVIDERS_CACHE = [c \in ChainIds |-> NoProvider]
  /\ WS_LAST_BLOCK_UPDATED_AT = [c \in ChainIds |-> NoTimestamp]
  /\ hooks \in [Hooks -> [chainId : ChainIds, active : BOOLEAN,
                          provider : {NoProvider}, needToReconnect : {FALSE},
                          effect : {TRUE}]]
  /\ providers = <<>>
  /\ now = StartTime
  /\ request = GmToGlvExample
  /\ quote = NoQuote
  /\ previous = [uiFeeFactor |-> 0, quote |-> NoQuote]

\* a failure may be reported while every hook can still create a provider
CanReconnect == Len(providers) + NumHooks <= MaxProviders

\* useEffect(function updateProvider() { ... }) of hook instance i
updateProvider(i) ==
  LET h == hooks[i]
      cachedProvider == WS_PROVIDERS_CACHE[h.chainId]
      newProvider == Len(providers) + 1
  IN  /\ h.effect
      /\ IF cachedProvider # NoProvider /\ ~h.needToReconnect
         THEN /\ hooks' = [hooks EXCEPT ![i].provider = cachedProvider,
                                        ![i].effect = FALSE]
              /\ UNCHANGED <<WS_PROVIDERS_CACHE, WS_LAST_BLOCK_UPDATED_AT, providers>>
         ELSE IF createWsProvider(h.chainId) = "undefined"
         THEN /\ hooks' = [hooks EXCEPT ![i].effect = FALSE]
              /\ UNCHANGED <<WS_PROVIDERS_CACHE, WS_LAST_BLOCK_UPDATED_AT, providers>>
         ELSE /\ newProvider <= MaxProviders
              /\ providers' = Append(providers, NewProvider(h.chainId, i))
              /\ WS_PROVIDERS_CACHE' =
                   [WS_PROVIDERS_CACHE EXCEPT ![h.chainId] = newProvider]
              /\ WS_LAST_BLOCK_UPDATED_AT' =
                   [WS_LAST_BLOCK_UPDATED_AT EXCEPT ![h.chainId] = now]
              /\ hooks' = setNeedToReconnect(
                            [hooks EXCEPT ![i].provider = newProvider,
                                          ![i].effect = FALSE],
                            i, FALSE)
      /\ UNCHANGED <<now, depositVars>>

\* the websocket of provider p opens, or the JSON-RPC provider detects its network
open(p) ==
  /\ ~providers[p].wsReady /\ ~providers[p].closed
  /\ providers' = [providers EXCEPT ![p].wsReady = TRUE]
  /\ UNCHANGED <<WS_PROVIDERS_CACHE, WS_LAST_BLOCK_UPDATED_AT, hooks, now, depositVars>>

\* newProvider.on("block", () => { WS_LAST_BLOCK_UPDATED_AT[chainId] = Date.now() })
onBlock(p) ==
  /\ providers[p].wsReady /\ ~providers[p].closed
  /\ WS_LAST_BLOCK_UPDATED_AT' =
       [WS_LAST_BLOCK_UPDATED_AT EXCEPT ![providers[p].chainId] = now]
  /\ UNCHANGED <<WS_PROVIDERS_CACHE, hooks, providers, now, depositVars>>

\* newProvider._websocket.onclose = () => { ... }
onclose(p) ==
  /\ isWebsocketProvider(providers[p]) /\ ~providers[p].closed
  /\ CanReconnect
  /\ \E ready \in {providers[p].wsReady, FALSE} :
       providers' = [providers EXCEPT ![p].closed = TRUE, ![p].wsReady = ready]
  /\ WS_PROVIDERS_CACHE' =
       [WS_PROVIDERS_CACHE EXCEPT ![providers[p].chainId] = NoProvider]
  /\ hooks' = setNeedToReconnect(hooks, providers[p].owner, TRUE)
  /\ UNCHANGED <<WS_LAST_BLOCK_UPDATED_AT, now, depositVars>>

\* the callback of the setTimeout of healthCheck() of provider p
healthCheck(p) ==
  /\ providers[p].timers > 0
  /\ IF HealthCheckFails(providers[p],
                         WS_LAST_BLOCK_UPDATED_AT[providers[p].chainId], now)
     THEN /\ CanReconnect
          /\ providers' = [providers EXCEPT ![p].timers = @ - 1,
                                            ![p].reported = TRUE]
          /\ hooks' = setNeedToReconnect(hooks, providers[p].owner, TRUE)
     ELSE /\ providers' = [providers EXCEPT ![p].timers = (@ - 1) + 1]
          /\ UNCHANGED hooks
  /\ UNCHANGED <<WS_PROVIDERS_CACHE, WS_LAST_BLOCK_UPDATED_AT, now, depositVars>>

\* time passes without any event
elapse ==
  /\ now + Silence <= StartTime + MaxElapses * Silence
  /\ now' = now + Silence
  /\ UNCHANGED <<WS_PROVIDERS_CACHE, WS_LAST_BLOCK_UPDATED_AT, hooks, providers,
                 depositVars>>

\* the parent renders hook instance i with the other value of active, a
\* dependency of the effect
setActive(i) ==
  /\ hooks' = [hooks EXCEPT ![i].active = ~@, ![i].effect = TRUE]
  /\ UNCHANGED <<WS_PROVIDERS_CACHE, WS_LAST_BLOCK_UPDATED_AT, providers, now,
                 depositVars>>

WsNext ==
  \/ \E i \in Hooks : updateProvider(i)
  \/ \E i \in Hooks : setActive(i)
  \/ \E p \in 1..Len(providers) : open(p)
  \/ \E p \in 1..Len(providers) : onBlock(p)
  \/ \E p \in 1..Len(providers) : onclose(p)
  \/ \E p \in 1..Len(providers) : healthCheck(p)
  \/ elapse

SpecWs == WsInit /\ [][WsNext]_vars

\* React runs a scheduled effect, and a timer that is set fires
WsFairness ==
  /\ \A i \in Hooks : WF_vars(updateProvider(i))
  /\ \A p \in 1..MaxProviders : WF_vars(p <= Len(providers) /\ healthCheck(p))

SpecWsLive == WsInit /\ [][WsNext]_vars /\ WsFairness

----------------------------------------------------------------------------
(* Properties *)

Called == quote.outcome # "none"

ReturnedQuote == quote.outcome = "returns"

\* the last two calls returned, and the last had the larger UI fee factor
FactorRaised ==
  /\ quote.outcome = "returns"
  /\ previous.quote.outcome = "returns"
  /\ previous.uiFeeFactor < request.uiFeeFactor

\* every price of the request is positive
PricesPositive ==
  /\ request.longToken.prices.minPrice > 0
  /\ request.longToken.prices.maxPrice > 0
  /\ request.shortToken.prices.minPrice > 0
  /\ request.shortToken.prices.maxPrice > 0
  /\ request.marketToken.prices.minPrice > 0
  /\ request.vaultInfo.present =>
       /\ request.vaultInfo.indexToken.prices.minPrice > 0
       /\ request.vaultInfo.indexToken.prices.maxPrice > 0

\* the GM -> GLV shortcut: a market-token deposit into a vault
VaultShortcut == request.isMarketTokenDeposit /\ request.vaultInfo.present

ByCollateralsRequest == request.strategy = "byCollaterals"

ByMarketTokenRequest == request.strategy = "byMarketToken"

NonZeroDeposit ==
  /\ ByCollateralsRequest => request.longTokenAmount + request.shortTokenAmount > 0
  /\ ByMarketTokenRequest => request.marketTokenAmount > 0

UnsignedFields == Fields \ {"swapPriceImpactDeltaUsd"}

\* C1: with non-negative amounts, positive prices and non-negative fee
\* factors, every field of a returned result except swapPriceImpactDeltaUsd
\* is a number >= 0.
C1_NoNegativeOutputs ==
  (ReturnedQuote /\ PricesPositive) =>
    \A f \in UnsignedFields : IsNum(quote.values[f]) /\ quote.values[f].n >= 0

\* C2: byCollaterals with both collateral amounts zero returns the all-zero
\* result, whatever the market, tokens, vault, factors and flags, and
\* evaluates no price-impact, fee or minting step.
C2_ZeroCollateralsShortCircuit ==
  (Called /\ ByCollateralsRequest
   /\ request.longTokenAmount = 0 /\ request.shortTokenAmount = 0) =>
    /\ quote.outcome = "returns"
    /\ quote.values = ZeroValues
    /\ quote.steps = {}

C2_Witness ==
  /\ ReturnedQuote /\ ByCollateralsRequest
  /\ request.longTokenAmount = 0 /\ request.shortTokenAmount = 0
  /\ request.marketTokenAmount > 0
  /\ request.vaultInfo.present /\ request.forShift
  /\ request.uiFeeFactor > 0
  /\ request.longToken.prices.minPrice = 0

\* C3: byMarketToken with a zero market-token amount returns the all-zero
\* result, whatever the long and short amounts, flags and vault are.
C3_ZeroMarketTokenShortCircuit ==
  (Called /\ ByMarketTokenRequest /\ request.marketTokenAmount = 0) =>
    /\ quote.outcome = "returns"
    /\ quote.values = ZeroValues

C3_Witness ==
  /\ ReturnedQuote /\ ByMarketTokenRequest
  /\ request.marketTokenAmount = 0
  /\ request.longTokenAmount > 0 /\ request.shortTokenAmount > 0
  /\ request.forShift /\ request.isMarketTokenDeposit /\ request.vaultInfo.present
  /\ request.marketInfo.longPoolAmount = 0

\* C4 as stated: for a non-zero deposit outside the vault shortcut, a larger
\* UI fee factor returns a strictly larger uiFeeUsd.
C4_UiFeeStrictlyIncreasing ==
  (FactorRaised /\ NonZeroDeposit /\ ~VaultShortcut /\ PricesPositive) =>
    previous.quote.values.uiFeeUsd.n < quote.values.uiFeeUsd.n

\* C4 as amended: a larger UI fee factor never returns a smaller uiFeeUsd
\* (the floor of usd * factor / PRECISION can give the same fee twice).
C4_UiFeeNonDecreasing ==
  FactorRaised =>
    /\ IsNum(previous.quote.values.uiFeeUsd) /\ IsNum(quote.values.uiFeeUsd)
    /\ previous.quote.values.uiFeeUsd.n <= quote.values.uiFeeUsd.n

C4_Witness ==
  /\ FactorRaised /\ NonZeroDeposit /\ ~VaultShortcut
  /\ previous.quote.values.uiFeeUsd.n < quote.values.uiFeeUsd.n
  /\ previous.uiFeeFactor > 0

\* C5: a larger UI fee factor does not return a larger marketTokenAmount,
\* also when a vault wraps the market.
C5_MarketTokenAmountNotIncreasing ==
  (FactorRaised /\ PricesPositive) =>
    quote.values.marketTokenAmount.n <= previous.quote.values.marketTokenAmount.n

\* C6 as stated: a larger UI fee factor does not return a smaller
\* marketTokenAmount, in either strategy.
C6_MarketTokenAmountNotDecreasing ==
  (FactorRaised /\ PricesPositive) =>
    previous.quote.values.marketTokenAmount.n <= quote.values.marketTokenAmount.n

\* C6 as amended: in byMarketToken a larger UI fee factor does not return a
\* smaller marketTokenAmount (it is the requested amount).
C6_RequestedAmountNotDecreasing ==
  (FactorRaised /\ ByMarketTokenRequest) =>
    /\ IsNum(previous.quote.values.marketTokenAmount)
    /\ IsNum(quote.values.marketTokenAmount)
    /\ previous.quote.values.marketTokenAmount.n <= quote.values.marketTokenAmount.n

C6_Witness ==
  /\ FactorRaised /\ ByMarketTokenRequest /\ ~VaultShortcut
  /\ request.marketTokenAmount > 0
  /\ previous.quote.values.uiFeeUsd.n < quote.values.uiFeeUsd.n
  /\ previous.quote.values.longTokenAmount.n < quote.values.longTokenAmount.n

\* C7: outside the vault shortcut, the returned marketTokenUsd is
\* convertToUsd of the returned marketTokenAmount at the market token's
\* decimals and price (here with every price positive).
C7_MarketTokenUsdRecomputable ==
  (ReturnedQuote /\ ~VaultShortcut /\ PricesPositive) =>
    quote.values.marketTokenUsd =
      convertToUsd(quote.values.marketTokenAmount, request.marketToken.decimals,
                   request.marketToken.prices.minPrice)

\* C8: no call divides by a zero total: with every price positive, so that
\* no conversion is undefined, every call completes and returns a result.
C8_NoDivisionByZeroTotal ==
  (Called /\ PricesPositive) => quote.outcome = "returns"

\* C9: a call never throws and every field of its result is a number, also
\* when a price of the request is zero.
C9_MissingPriceGivesNumbers ==
  Called =>
    /\ quote.outcome = "returns"
    /\ \A f \in Fields : IsNum(quote.values[f])

\* the previous holdings of a byMarketToken request, in USD at mid prices
PrevLongUsd ==
  convertToUsd(Num(request.longTokenAmount), request.longToken.decimals,
               getMidPrice(request.longToken.prices))

PrevShortUsd ==
  convertToUsd(Num(request.shortTokenAmount), request.shortToken.decimals,
               getMidPrice(request.shortToken.prices))

\* the case of C10: byMarketToken, no shift, both sides included, previous
\* holdings (L, S) with L + S > 0, and a priced requested amount
PrevHoldingsCase ==
  /\ Called /\ ByMarketTokenRequest /\ ~VaultShortcut
  /\ request.marketTokenAmount > 0
  /\ ~request.forShift /\ request.includeLongToken /\ request.includeShortToken
  /\ IsNum(PrevLongUsd) /\ IsNum(PrevShortUsd)
  /\ PrevLongUsd.n + PrevShortUsd.n > 0
  /\ IsNum(quote.pre.marketTokenUsd)

\* C10: in that case, before fees and impact are redistributed,
\* longTokenUsd = floor(marketTokenUsd * L / (L + S)) and
\* shortTokenUsd = marketTokenUsd - longTokenUsd: the parts sum to
\* marketTokenUsd and longTokenUsd is less than one unit below its exact share.
C10_ProportionalSplit ==
  PrevHoldingsCase =>
    LET M == quote.pre.marketTokenUsd.n
        L == PrevLongUsd.n
        S == PrevShortUsd.n
    IN  /\ IsNum(quote.pre.longTokenUsd) /\ IsNum(quote.pre.shortTokenUsd)
        /\ quote.pre.longTokenUsd.n = (M * L) \div (L + S)
        /\ quote.pre.shortTokenUsd.n = M - quote.pre.longTokenUsd.n
        /\ quote.pre.longTokenUsd.n + quote.pre.shortTokenUsd.n = M
        /\ quote.pre.longTokenUsd.n * (L + S) <= M * L
        /\ M * L < (quote.pre.longTokenUsd.n + 1) * (L + S)
        /\ quote.pre.marketTokenUsd = quote.values.marketTokenUsd

C10_Witness ==
  /\ PrevHoldingsCase /\ ReturnedQuote
  /\ quote.pre.longTokenUsd.n > 0 /\ quote.pre.shortTokenUsd.n > 0
  /\ (quote.pre.marketTokenUsd.n * PrevLongUsd.n) % (PrevLongUsd.n + PrevShortUsd.n) # 0

\* the fields the vault shortcuts leave at zero
NoFeeNoImpact ==
  /\ quote.values.swapFeeUsd = Num(0)
  /\ quote.values.uiFeeUsd = Num(0)
  /\ quote.values.swapPriceImpactDeltaUsd = Num(0)

\* what getDepositAmounts returns for the GM -> GLV example
GmToGlvQuote == getDepositAmounts(GmToGlvExample)

\* C11: byCollaterals with isMarketTokenDeposit and a vault returns, for every
\* uiFeeFactor and market state, swapFeeUsd = uiFeeUsd =
\* swapPriceImpactDeltaUsd = 0 and marketTokenAmount = the USD value of
\* longTokenAmount at the deposited token's mid price, converted into vault
\* tokens at the vault index token's minimum price (0 when that conversion is
\* undefined); 100 tokens priced 1.00 into a vault priced 2.00 give 50.
C11_GmToGlvShortcut ==
  /\ (Called /\ ByCollateralsRequest /\ VaultShortcut) =>
        /\ ReturnedQuote
        /\ NoFeeNoImpact
        /\ quote.values.marketTokenAmount =
             Coalesce0(convertToTokenAmount(
               convertToUsd(Num(request.longTokenAmount), request.longToken.decimals,
                            getMidPrice(request.longToken.prices)),
               request.vaultInfo.indexToken.decimals,
               request.vaultInfo.indexToken.prices.minPrice))
  /\ Called =>
        /\ GmToGlvQuote.outcome = "returns"
        /\ GmToGlvQuote.values.marketTokenAmount = Num(50)

\* a GM -> GLV deposit that yields vault tokens, in a market with price impact,
\* with a UI fee factor and a short amount set
C11_Witness ==
  /\ Called /\ ByCollateralsRequest /\ VaultShortcut
  /\ request.uiFeeFactor > 0
  /\ request.marketInfo.swapImpactFactorNegative > 0
  /\ request.shortTokenAmount > 0
  /\ Gt0(quote.values.marketTokenAmount)

\* C12: byMarketToken with isMarketTokenDeposit, a vault and a positive
\* marketTokenAmount returns with marketTokenUsd = the requested amount
\* valued at the vault index token's minimum price, longTokenAmount =
\* convertToTokenAmount(marketTokenUsd, market-token decimals, market-token
\* minPrice), and swapFeeUsd, uiFeeUsd, swapPriceImpactDeltaUsd,
\* shortTokenAmount and shortTokenUsd all 0, whatever forShift, the include
\* flags, uiFeeFactor and the pool are.
C12_GlvByMarketTokenShortcut ==
  (Called /\ ByMarketTokenRequest /\ VaultShortcut /\ request.marketTokenAmount > 0) =>
    /\ ReturnedQuote
    /\ quote.values.marketTokenUsd =
         convertToUsd(Num(request.marketTokenAmount),
                      request.vaultInfo.indexToken.decimals,
                      request.vaultInfo.indexToken.prices.minPrice)
    /\ quote.values.longTokenAmount =
         convertToTokenAmount(quote.values.marketTokenUsd,
                              request.marketToken.decimals,
                              request.marketToken.prices.minPrice)
    /\ NoFeeNoImpact
    /\ quote.values.shortTokenAmount = Num(0)
    /\ quote.values.shortTokenUsd = Num(0)

\* a shift through the shortcut with fees set and both sides included
C12_Witness ==
  /\ Called /\ ByMarketTokenRequest /\ VaultShortcut
  /\ request.forShift /\ request.includeLongToken /\ request.includeShortToken
  /\ request.uiFeeFactor > 0
  /\ request.marketInfo.swapFeeFactorForNegativeImpact > 0
  /\ Gt0(quote.values.longTokenAmount)

\* the UI fee of a notional that is charged only when it is positive
UiFeeOfSide(usd) ==
  IF Gt0(usd) THEN applyFactor(usd, request.uiFeeFactor) ELSE Num(0)

\* C13: when forShift is true a returned result has swapFeeUsd = 0 in both
\* strategies, whatever the market's fee factors and the amounts are, while
\* outside the zero-input and vault shortcuts uiFeeUsd is still the UI fee of
\* the notional (per side in byCollaterals, of marketTokenUsd in
\* byMarketToken, where totalFee then equals uiFeeUsd).
C13_ShiftHasNoSwapFee ==
  (ReturnedQuote /\ request.forShift) =>
    /\ quote.values.swapFeeUsd = Num(0)
    /\ (ByCollateralsRequest /\ NonZeroDeposit /\ ~VaultShortcut) =>
         /\ quote.pre.sides.long.swapFeeUsd = Num(0)
         /\ quote.pre.sides.short.swapFeeUsd = Num(0)
         /\ quote.values.uiFeeUsd =
              Add(UiFeeOfSide(quote.values.longTokenUsd),
                  UiFeeOfSide(quote.values.shortTokenUsd))
    /\ (ByMarketTokenRequest /\ NonZeroDeposit /\ ~VaultShortcut) =>
         /\ quote.values.uiFeeUsd =
              applyFactor(quote.values.marketTokenUsd, request.uiFeeFactor)
         /\ quote.pre.totalFee = quote.values.uiFeeUsd

\* a shift in a market that charges swap fees, with a UI fee charged
C13_Witness ==
  /\ ReturnedQuote /\ request.forShift /\ ~VaultShortcut
  /\ request.marketInfo.swapFeeFactorForPositiveImpact > 0
  /\ request.marketInfo.swapFeeFactorForNegativeImpact > 0
  /\ Gt0(quote.values.uiFeeUsd)
  /\ Gt0(quote.values.marketTokenAmount)

\* byCollaterals without a vault, in a market without swap fee, without UI
\* fee, and a quote without price impact
FreeDeposit ==
  /\ ReturnedQuote /\ ByCollateralsRequest /\ ~request.vaultInfo.present
  /\ request.marketInfo.swapFeeFactorForPositiveImpact = 0
  /\ request.marketInfo.swapFeeFactorForNegativeImpact = 0
  /\ request.uiFeeFactor = 0
  /\ quote.values.swapPriceImpactDeltaUsd = Num(0)

\* the market tokens minted for an amount of a token valued at its minimum price
MintAtMinPrice(token, amount) ==
  usdToMarketTokenAmount(request.marketInfo, request.marketToken,
    convertToUsd(Num(amount), token.decimals, token.prices.minPrice))

\* the market tokens minted for the total deposited USD
MintOfTotalUsd ==
  usdToMarketTokenAmount(request.marketInfo, request.marketToken,
    Add(quote.values.longTokenUsd, quote.values.shortTokenUsd))

\* C14 as stated: byCollaterals without a vault, with zero swap fee factor,
\* zero uiFeeFactor and zero price impact has swapFeeUsd = uiFeeUsd =
\* swapPriceImpactDeltaUsd = 0 and marketTokenAmount = the market tokens
\* minted for longTokenUsd + shortTokenUsd.
C14_MintOfTotalDepositUsd ==
  FreeDeposit => (NoFeeNoImpact /\ quote.values.marketTokenAmount = MintOfTotalUsd)

\* what getDepositAmounts returns for the balanced deposit example
BalancedDepositQuote == getDepositAmounts(BalancedDepositExample)

\* C14 amended: under the same conditions swapFeeUsd = uiFeeUsd =
\* swapPriceImpactDeltaUsd = 0 and marketTokenAmount is the sum of the market
\* tokens minted for each side's amount valued at that token's minimum
\* price; it never exceeds the mint of longTokenUsd + shortTokenUsd, and when
\* both tokens have minPrice = maxPrice it is at most one unit below it;
\* 1000 long and 1000 short tokens at 1.00 USD mint the equivalent of 2000 USD.
C14_MintOfEachSideAtMinPrice ==
  /\ FreeDeposit =>
        /\ NoFeeNoImpact
        /\ quote.values.marketTokenAmount =
             Add(MintAtMinPrice(request.longToken, request.longTokenAmount),
                 MintAtMinPrice(request.shortToken, request.shortTokenAmount))
        /\ quote.values.marketTokenAmount.n <= MintOfTotalUsd.n
        /\ (/\ request.longToken.prices.minPrice = request.longToken.prices.maxPrice
            /\ request.shortToken.prices.minPrice = request.shortToken.prices.maxPrice)
           => quote.values.marketTokenAmount.n >= MintOfTotalUsd.n - 1
  /\ Called =>
        LET example == BalancedDepositQuote
        IN  /\ example.outcome = "returns"
            /\ example.values.swapFeeUsd = Num(0)
            /\ example.values.uiFeeUsd = Num(0)
            /\ example.values.swapPriceImpactDeltaUsd = Num(0)
            /\ example.values.marketTokenAmount =
                 usdToMarketTokenAmount(BalancedDepositExample.marketInfo,
                                        BalancedDepositExample.marketToken,
                                        Num(2000 * expandDecimals(USD_DECIMALS)))
            /\ Gt0(example.values.marketTokenAmount)

\* a free deposit of both tokens, one of them with a bid/ask spread
C14_Witness ==
  /\ FreeDeposit
  /\ request.longTokenAmount > 0 /\ request.shortTokenAmount > 0
  /\ request.shortToken.prices.minPrice < request.shortToken.prices.maxPrice
  /\ Gt0(quote.values.marketTokenAmount)
  /\ quote.values.marketTokenAmount.n < MintOfTotalUsd.n

Sides == {"long", "short"}

\* what a side of the last byCollaterals call passed to and got from
\* getMarketTokenAmountByCollateral
SideCall(side) == quote.pre.sides[side]

SideTokenIn(side) == IF side = "long" THEN request.longToken ELSE request.shortToken

SideTokenOut(side) == IF side = "long" THEN request.shortToken ELSE request.longToken

\* the side's call returned a number for a price-impact share of the given sign
SideMinted(side) ==
  /\ ReturnedQuote
  /\ SideCall(side).called
  /\ IsNum(SideCall(side).mint)
  /\ IsNum(SideCall(side).priceImpactDeltaUsd)

\* amount - swapFeeAmount - uiFeeAmount of the side's call
SidePostFeeAmount(side) ==
  Sub(Sub(SideCall(side).amount,
          convertToTokenAmount(SideCall(side).swapFeeUsd, SideTokenIn(side).decimals,
                               SideTokenIn(side).prices.minPrice)),
      convertToTokenAmount(SideCall(side).uiFeeUsd, SideTokenIn(side).decimals,
                           SideTokenIn(side).prices.minPrice))

\* the market tokens minted for an amount of the side's tokenIn at its minPrice
SideMintOfInput(side, amountIn) ==
  usdToMarketTokenAmount(request.marketInfo, request.marketToken,
    convertToUsd(amountIn, SideTokenIn(side).decimals, SideTokenIn(side).prices.minPrice))

\* the market tokens minted for the capped bonus of tokenOut at its maxPrice
SideMintOfBonus(side) ==
  usdToMarketTokenAmount(request.marketInfo, request.marketToken,
    convertToUsd(applySwapImpactWithCap(request.marketInfo, SideTokenOut(side),
                                        SideCall(side).priceImpactDeltaUsd),
                 SideTokenOut(side).decimals, SideTokenOut(side).prices.maxPrice))

\* the capped impact of the side's share in tokenIn units
SideNegativeImpactAmount(side) ==
  applySwapImpactWithCap(request.marketInfo, SideTokenIn(side),
                         SideCall(side).priceImpactDeltaUsd)

\* what getMarketTokenAmountByCollateral gives the side for the same amount
\* and fees and a price-impact share of zero
SideMintWithoutImpact(side) ==
  getMarketTokenAmountByCollateral(request.marketInfo, request.marketToken,
    SideTokenIn(side), SideTokenOut(side), SideCall(side).amount, Num(0),
    SideCall(side).swapFeeUsd, SideCall(side).uiFeeUsd)

\* C15: getMarketTokenAmountByCollateral with a positive price-impact share
\* mints mint(USD of the capped bonus amount of tokenOut at tokenOut
\* maxPrice) + mint(USD of amount - swapFeeAmount - uiFeeAmount at tokenIn
\* minPrice); the impact leaves the post-fee input as it is, so the result is
\* >= what the same amount and fees mint with zero price impact.
C15_PositiveImpactIsAdditive ==
  \A side \in Sides :
    (SideMinted(side) /\ Gt0(SideCall(side).priceImpactDeltaUsd)) =>
      /\ SideCall(side).mint =
           Add(SideMintOfBonus(side), SideMintOfInput(side, SidePostFeeAmount(side)))
      /\ SideMintWithoutImpact(side) = SideMintOfInput(side, SidePostFeeAmount(side))
      /\ SideCall(side).mint.n >= SideMintWithoutImpact(side).n

\* a side with fees charged whose positive share mints a bonus
C15_Witness ==
  \E side \in Sides :
    /\ SideMinted(side) /\ Gt0(SideCall(side).priceImpactDeltaUsd)
    /\ Gt0(SideCall(side).swapFeeUsd)
    /\ Gt0(SideMintOfBonus(side))
    /\ SideCall(side).mint.n > SideMintWithoutImpact(side).n

\* C16: getMarketTokenAmountByCollateral with a price-impact share <= 0 mints
\* exactly mint(USD at tokenIn minPrice of amount - swapFeeAmount -
\* uiFeeAmount + negativeImpactAmount), where negativeImpactAmount <= 0 is
\* the capped impact in tokenIn units; nothing is minted for tokenOut, and
\* the result is <= what the same amount and fees mint with zero price
\* impact, and equal to it when the share is 0.
C16_NegativeImpactReducesInput ==
  \A side \in Sides :
    (SideMinted(side) /\ ~Gt0(SideCall(side).priceImpactDeltaUsd)) =>
      /\ IsNum(SideNegativeImpactAmount(side))
      /\ SideNegativeImpactAmount(side).n <= 0
      /\ SideCall(side).mint =
           SideMintOfInput(side, Add(SidePostFeeAmount(side),
                                     SideNegativeImpactAmount(side)))
      /\ SideCall(side).mint.n <= SideMintWithoutImpact(side).n
      /\ SideCall(side).priceImpactDeltaUsd = Num(0) =>
           SideCall(side).mint = SideMintWithoutImpact(side)

\* a side with fees charged whose negative share reduces what it mints
C16_Witness ==
  \E side \in Sides :
    /\ SideMinted(side) /\ Lt0(SideCall(side).priceImpactDeltaUsd)
    /\ Gt0(SideCall(side).uiFeeUsd)
    /\ Lt0(SideNegativeImpactAmount(side))
    /\ Gt0(SideCall(side).mint)
    /\ SideCall(side).mint.n < SideMintWithoutImpact(side).n

\* a side whose share is 0 and that mints
C16_ZeroShareWitness ==
  \E side \in Sides :
    /\ SideMinted(side) /\ SideCall(side).priceImpactDeltaUsd = Num(0)
    /\ Gt0(SideCall(side).mint)

\* byCollaterals with a vault, past the zero-input and the GM -> GLV returns
VaultWrapped ==
  /\ ReturnedQuote /\ ByCollateralsRequest /\ NonZeroDeposit
  /\ request.vaultInfo.present /\ ~request.isMarketTokenDeposit

\* the sum of the market tokens the two sides minted
MintedBySides == Add(Add(Num(0), SideCall("long").mint), SideCall("short").mint)

\* marketTokenUsd converted into vault tokens at the vault index maxPrice
VaultAmountOfMarketTokenUsd ==
  convertToTokenAmount(quote.values.marketTokenUsd,
                       request.vaultInfo.indexToken.decimals,
                       request.vaultInfo.indexToken.prices.maxPrice)

\* C17: byCollaterals with a vault and not the market-token-deposit shortcut
\* returns marketTokenAmount = convertToTokenAmount(marketTokenUsd, vault
\* index decimals, vault index maxPrice) whenever that is defined and > 0;
\* when it is undefined or 0, marketTokenAmount stays the sum of the
\* per-side minted amounts.  marketTokenUsd stays the USD of that sum at the
\* market token's minPrice.
C17_VaultWrapOverwritesWhenPositive ==
  VaultWrapped =>
    /\ quote.values.marketTokenUsd =
         convertToUsd(MintedBySides, request.marketToken.decimals,
                      request.marketToken.prices.minPrice)
    /\ (IsNum(VaultAmountOfMarketTokenUsd) /\ Gt0(VaultAmountOfMarketTokenUsd)) =>
         quote.values.marketTokenAmount = VaultAmountOfMarketTokenUsd
    /\ ~(IsNum(VaultAmountOfMarketTokenUsd) /\ Gt0(VaultAmountOfMarketTokenUsd)) =>
         quote.values.marketTokenAmount = MintedBySides

\* a wrap that replaces the minted amount by a different vault-token amount
C17_Witness ==
  /\ VaultWrapped
  /\ Gt0(VaultAmountOfMarketTokenUsd)
  /\ Gt0(MintedBySides)
  /\ quote.values.marketTokenAmount # MintedBySides

\* a wrap whose conversion gives 0 and leaves the minted amount in place
C17_StaleWitness ==
  /\ VaultWrapped
  /\ VaultAmountOfMarketTokenUsd = Num(0)
  /\ Gt0(quote.values.marketTokenAmount)

\* a wrap whose conversion is undefined and leaves the minted amount in place
C17_UndefinedWitness ==
  /\ VaultWrapped
  /\ VaultAmountOfMarketTokenUsd = Undefined
  /\ Gt0(quote.values.marketTokenAmount)

\* byMarketToken past the zero-input and the vault shortcut returns
SplitComputed ==
  /\ Called /\ ByMarketTokenRequest /\ NonZeroDeposit /\ ~VaultShortcut

\* the pool's long and short amounts valued at each token's maxPrice
LongPoolUsd ==
  convertToUsd(Num(request.marketInfo.longPoolAmount), request.longToken.decimals,
               request.longToken.prices.maxPrice)

ShortPoolUsd ==
  convertToUsd(Num(request.marketInfo.shortPoolAmount), request.shortToken.decimals,
               request.shortToken.prices.maxPrice)

\* the request with the other include flags and other previous holdings
OtherHoldings ==
  [request EXCEPT !.includeLongToken = ~@, !.includeShortToken = ~@,
                  !.longTokenAmount = MaxAmount * AmountUnit - @,
                  !.shortTokenAmount = (@ + AmountUnit) % ((MaxAmount + 1) * AmountUnit)]

\* C18: byMarketToken with forShift, outside the vault shortcut, splits
\* marketTokenUsd before fees into longTokenUsd = marketTokenUsd *
\* longPoolUsd / totalPoolUsd and shortTokenUsd = marketTokenUsd *
\* shortPoolUsd / totalPoolUsd, the pool USD valued from longPoolAmount and
\* shortPoolAmount at each token's maxPrice (for a pool worth more than 0);
\* the split is the same for other longTokenAmount, shortTokenAmount,
\* includeLongToken and includeShortToken.
C18_ShiftSplitsByPoolComposition ==
  (SplitComputed /\ request.forShift) =>
    /\ quote.pre.marketTokenUsd = RequestedMarketTokenUsd(request)
    /\ (/\ IsNum(quote.pre.marketTokenUsd)
        /\ IsNum(LongPoolUsd) /\ IsNum(ShortPoolUsd)
        /\ LongPoolUsd.n + ShortPoolUsd.n > 0) =>
         /\ quote.pre.longTokenUsd =
              Num(TruncDiv(quote.pre.marketTokenUsd.n * LongPoolUsd.n,
                           LongPoolUsd.n + ShortPoolUsd.n))
         /\ quote.pre.shortTokenUsd =
              Num(TruncDiv(quote.pre.marketTokenUsd.n * ShortPoolUsd.n,
                           LongPoolUsd.n + ShortPoolUsd.n))
    /\ LET other == getDepositAmounts(OtherHoldings).pre
       IN  /\ other.longTokenUsd = quote.pre.longTokenUsd
           /\ other.shortTokenUsd = quote.pre.shortTokenUsd

\* a shift into an unevenly composed pool that is split into two positive
\* parts, although only the short side is included and holds anything
C18_Witness ==
  /\ SplitComputed /\ request.forShift /\ ReturnedQuote
  /\ LongPoolUsd # ShortPoolUsd
  /\ ~request.includeLongToken /\ request.longTokenAmount = 0
  /\ Gt0(quote.pre.longTokenUsd) /\ Gt0(quote.pre.shortTokenUsd)

\* byMarketToken without forShift that returned, with only the long or only
\* the short side included
OnlyLongIncluded ==
  /\ SplitComputed /\ ReturnedQuote /\ ~request.forShift
  /\ request.includeLongToken /\ ~request.includeShortToken

OnlyShortIncluded ==
  /\ SplitComputed /\ ReturnedQuote /\ ~request.forShift
  /\ ~request.includeLongToken /\ request.includeShortToken

\* C19: byMarketToken without forShift, with exactly one of includeLongToken
\* and includeShortToken true, allocates all of marketTokenUsd to the
\* included side before fees, and the other side's USD and token amount in
\* the result are 0 after the fee and impact redistribution.
C19_SingleSideGetsAll ==
  /\ OnlyLongIncluded =>
        /\ quote.pre.longTokenUsd = quote.values.marketTokenUsd
        /\ quote.pre.shortTokenUsd = Num(0)
        /\ quote.values.shortTokenUsd = Num(0)
        /\ quote.values.shortTokenAmount = Num(0)
  /\ OnlyShortIncluded =>
        /\ quote.pre.shortTokenUsd = quote.values.marketTokenUsd
        /\ quote.pre.longTokenUsd = Num(0)
        /\ quote.values.longTokenUsd = Num(0)
        /\ quote.values.longTokenAmount = Num(0)

\* only the short side is included although the long side holds something,
\* and fees and a negative price impact are redistributed
C19_Witness ==
  /\ OnlyShortIncluded
  /\ request.longTokenAmount > 0
  /\ Gt0(quote.pre.totalFee)
  /\ Lt0(quote.values.swapPriceImpactDeltaUsd)
  /\ quote.values.shortTokenUsd.n > quote.values.marketTokenUsd.n
  /\ Gt0(quote.values.shortTokenAmount)

\* byMarketToken returned past the split, the fees and the redistribution
Redistributed == SplitComputed /\ ReturnedQuote

\* the sum of the pre-fee split
SplitTotal == quote.pre.longTokenUsd.n + quote.pre.shortTokenUsd.n

\* C20: in byMarketToken, with the pre-fee split (l, s), total = l + s and
\* totalFee = swapFeeUsd + uiFeeUsd: when total > 0, after the fee step
\* longTokenUsd = l + floor(totalFee * l / total) and shortTokenUsd = s +
\* floor(totalFee * s / total), neither side decreases, a side with zero USD
\* stays zero, and the new sum is total + totalFee or one unit less; when
\* total = 0 the step is skipped and both sides stay 0.
C20_FeeRedistribution ==
  Redistributed =>
    LET l == quote.pre.longTokenUsd.n
        s == quote.pre.shortTokenUsd.n
        totalFee == quote.pre.totalFee.n
        long1 == quote.pre.afterFees.longTokenUsd
        short1 == quote.pre.afterFees.shortTokenUsd
    IN  /\ IsNum(quote.pre.longTokenUsd) /\ IsNum(quote.pre.shortTokenUsd)
        /\ IsNum(quote.pre.totalFee) /\ IsNum(long1) /\ IsNum(short1)
        /\ totalFee = quote.values.swapFeeUsd.n + quote.values.uiFeeUsd.n
        /\ SplitTotal >= 0
        /\ SplitTotal > 0 =>
             /\ long1.n = l + (totalFee * l) \div SplitTotal
             /\ short1.n = s + (totalFee * s) \div SplitTotal
             /\ long1.n >= l /\ short1.n >= s
             /\ l = 0 => long1.n = 0
             /\ s = 0 => short1.n = 0
             /\ long1.n + short1.n \in {SplitTotal + totalFee - 1, SplitTotal + totalFee}
        /\ SplitTotal = 0 =>
             /\ long1 = Num(0) /\ short1 = Num(0)

\* a fee shared by two positive sides, one unit of it lost to rounding
C20_Witness ==
  /\ Redistributed
  /\ Gt0(quote.pre.longTokenUsd) /\ Gt0(quote.pre.shortTokenUsd)
  /\ Gt0(quote.values.swapFeeUsd) /\ Gt0(quote.values.uiFeeUsd)
  /\ quote.pre.afterFees.longTokenUsd.n + quote.pre.afterFees.shortTokenUsd.n
       = SplitTotal + quote.pre.totalFee.n - 1

\* a fee charged on a split of (0, 0): the step is skipped
C20_SkippedWitness ==
  /\ Redistributed
  /\ SplitTotal = 0
  /\ Gt0(quote.pre.totalFee)

\* the sum of the two sides after the fee redistribution
TotalAfterFees ==
  quote.pre.afterFees.longTokenUsd.n + quote.pre.afterFees.shortTokenUsd.n

\* C21: in byMarketToken, when swapPriceImpactDeltaUsd > 0 (or = 0) the
\* final longTokenUsd and shortTokenUsd are their values after the fee
\* redistribution; when it is < 0 each side is increased by
\* floor(|impact| * sideUsd / totalAfterFees), both shares taken against the
\* same post-fee total; so the final sum is never below the pre-fee total.
C21_ImpactRedistribution ==
  Redistributed =>
    LET impact == quote.values.swapPriceImpactDeltaUsd
        long1 == quote.pre.afterFees.longTokenUsd
        short1 == quote.pre.afterFees.shortTokenUsd
    IN  /\ IsNum(impact)
        /\ ~Lt0(impact) =>
             /\ quote.values.longTokenUsd = long1
             /\ quote.values.shortTokenUsd = short1
        /\ (Lt0(impact) /\ TotalAfterFees > 0) =>
             /\ quote.values.longTokenUsd.n =
                  long1.n + ((-impact.n) * long1.n) \div TotalAfterFees
             /\ quote.values.shortTokenUsd.n =
                  short1.n + ((-impact.n) * short1.n) \div TotalAfterFees
        /\ (Lt0(impact) /\ TotalAfterFees = 0) =>
             /\ quote.values.longTokenUsd = long1
             /\ quote.values.shortTokenUsd = short1
        /\ quote.values.longTokenUsd.n + quote.values.shortTokenUsd.n >= SplitTotal

\* a negative impact whose magnitude raises both positive sides
C21_Witness ==
  /\ Redistributed
  /\ Lt0(quote.values.swapPriceImpactDeltaUsd)
  /\ quote.values.longTokenUsd.n > quote.pre.afterFees.longTokenUsd.n
  /\ quote.values.shortTokenUsd.n > quote.pre.afterFees.shortTokenUsd.n
  /\ Gt0(quote.pre.totalFee)

\* a positive impact that is ignored
C21_PositiveWitness ==
  /\ Redistributed
  /\ Gt0(quote.values.swapPriceImpactDeltaUsd)
  /\ Gt0(quote.values.longTokenUsd) /\ Gt0(quote.values.shortTokenUsd)

\* a shift past the shortcuts whose pool is priced and worth more than 0
ShiftCase ==
  /\ SplitComputed /\ request.forShift
  /\ IsNum(quote.pre.marketTokenUsd)
  /\ IsNum(LongPoolUsd) /\ IsNum(ShortPoolUsd)
  /\ LongPoolUsd.n + ShortPoolUsd.n > 0

\* C22: in byMarketToken with forShift and totalPoolUsd > 0 both sides of the
\* pre-fee split are floored on their own, so longTokenUsd + shortTokenUsd
\* is marketTokenUsd or one unit less; in the split by the previous holdings
\* the two sides always sum to marketTokenUsd exactly.
C22_ShiftSplitLosesAtMostOne ==
  /\ ShiftCase =>
        /\ IsNum(quote.pre.longTokenUsd) /\ IsNum(quote.pre.shortTokenUsd)
        /\ SplitTotal <= quote.pre.marketTokenUsd.n
        /\ SplitTotal >= quote.pre.marketTokenUsd.n - 1
  /\ PrevHoldingsCase =>
        /\ IsNum(quote.pre.longTokenUsd) /\ IsNum(quote.pre.shortTokenUsd)
        /\ SplitTotal = quote.pre.marketTokenUsd.n

\* a shift whose split loses one unit of marketTokenUsd
C22_Witness ==
  /\ ShiftCase /\ ReturnedQuote
  /\ Gt0(quote.pre.longTokenUsd)
  /\ SplitTotal = quote.pre.marketTokenUsd.n - 1

\* byMarketToken without forShift that returned, both sides included, the
\* previous holdings worth 0 USD
NoHoldingsIncluded ==
  /\ Redistributed /\ ~request.forShift
  /\ request.includeLongToken /\ request.includeShortToken
  /\ Add(PrevLongUsd, PrevShortUsd) = Num(0)

\* byMarketToken without forShift that returned, no side included
NeitherIncluded ==
  /\ Redistributed /\ ~request.forShift
  /\ ~request.includeLongToken /\ ~request.includeShortToken

\* the collateral fields of the result are all 0
NoCollateral ==
  /\ quote.values.longTokenUsd = Num(0)
  /\ quote.values.shortTokenUsd = Num(0)
  /\ quote.values.longTokenAmount = Num(0)
  /\ quote.values.shortTokenAmount = Num(0)

\* all of marketTokenUsd goes to the long side before fees, nothing to the short
AllToLong ==
  /\ quote.pre.longTokenUsd = quote.values.marketTokenUsd
  /\ quote.pre.shortTokenUsd = Num(0)
  /\ quote.values.shortTokenUsd = Num(0)
  /\ quote.values.shortTokenAmount = Num(0)

\* C23 as stated: without forShift, with both sides included and previous
\* holdings worth 0 USD the whole marketTokenUsd goes to the long side and
\* shortTokenUsd and shortTokenAmount are 0; with neither side included the
\* four collateral fields are 0 while marketTokenAmount, marketTokenUsd and
\* the fee fields are non-zero.
C23_NeitherIncludedFeesNonZero ==
  /\ NoHoldingsIncluded => AllToLong
  /\ NeitherIncluded =>
        /\ NoCollateral
        /\ quote.values.marketTokenAmount # Num(0)
        /\ quote.values.marketTokenUsd # Num(0)
        /\ quote.values.swapFeeUsd # Num(0)
        /\ quote.values.uiFeeUsd # Num(0)

\* C23 amended: the first part as stated; with neither side included the
\* four collateral fields are 0 while marketTokenAmount is the requested
\* amount (> 0), marketTokenUsd is its USD value, and swapFeeUsd and uiFeeUsd
\* are the swap fee and the UI fee of marketTokenUsd, which are 0 when the
\* fee factor is 0 or the notional is too small and positive otherwise.
C23_NeitherIncludedFeesOfNotional ==
  /\ NoHoldingsIncluded => AllToLong
  /\ NeitherIncluded =>
        /\ NoCollateral
        /\ quote.values.marketTokenAmount = Num(request.marketTokenAmount)
        /\ Gt0(quote.values.marketTokenAmount)
        /\ quote.values.marketTokenUsd = RequestedMarketTokenUsd(request)
        /\ quote.values.swapFeeUsd =
             getSwapFee(request.marketInfo, quote.values.marketTokenUsd,
                        Gt0(quote.values.swapPriceImpactDeltaUsd))
        /\ quote.values.uiFeeUsd =
             applyFactor(quote.values.marketTokenUsd, request.uiFeeFactor)
        /\ (quote.values.marketTokenUsd.n * request.uiFeeFactor >= PRECISION)
             <=> Gt0(quote.values.uiFeeUsd)

\* no side included, and the amount, its USD value and both fees are positive
C23_Witness ==
  /\ NeitherIncluded
  /\ request.longTokenAmount > 0
  /\ Gt0(quote.values.marketTokenUsd)
  /\ Gt0(quote.values.swapFeeUsd) /\ Gt0(quote.values.uiFeeUsd)

\* both sides included, nothing held, fees charged: all goes to the long side
C23_NoHoldingsWitness ==
  /\ NoHoldingsIncluded
  /\ Gt0(quote.pre.longTokenUsd)
  /\ Gt0(quote.pre.totalFee)
  /\ quote.values.longTokenUsd.n > quote.pre.longTokenUsd.n

\* the GM -> GLV shortcut of byCollaterals returned for a priced long amount
RoundTripCase ==
  /\ ReturnedQuote /\ ByCollateralsRequest /\ VaultShortcut /\ NonZeroDeposit
  /\ IsNum(quote.values.longTokenUsd)

\* what the round trip USD -> vault tokens -> USD loses
RoundTripLoss == quote.values.longTokenUsd.n - quote.values.marketTokenUsd.n

\* the vault index token's minPrice and the size of one whole vault token
VaultMinPrice == request.vaultInfo.indexToken.prices.minPrice

VaultTokenUnit == expandDecimals(request.vaultInfo.indexToken.decimals)

C24_FractionalUnitWitness ==
  /\ RoundTripCase
  /\ VaultMinPrice > 0
  /\ RoundTripLoss * VaultTokenUnit >= VaultMinPrice

----------------------------------------------------------------------------
(* useWsProvider: properties *)

Created == 1..Len(providers)

\* the provider created last for a chain, NoProvider if there is none
LatestProvider(chainId) ==
  LET made == {p \in Created : providers[p].chainId = chainId}
  IN  IF made = {} THEN NoProvider ELSE CHOOSE p \in made : \A q \in made : q <= p

\* the websocket of provider p closes in this step
Closes(p) == ~providers[p].closed /\ providers'[p].closed

\* the health check of provider p reports a failure in this step
Reports(p) == ~providers[p].reported /\ providers'[p].reported

\* the cache holds another, newer provider than p for p's chain
Replaced(p) ==
  /\ WS_PROVIDERS_CACHE[providers[p].chainId] # NoProvider
  /\ WS_PROVIDERS_CACHE[providers[p].chainId] # p

\* C25: for each chainId, WS_PROVIDERS_CACHE[chainId] is always undefined or
\* the provider created last for that chain, and the websocket close event
\* of a provider that was already replaced in the cache leaves the cache as
\* it is.
C25_CacheHoldsLatestProvider ==
  /\ [](\A c \in ChainIds :
          WS_PROVIDERS_CACHE[c] \in {NoProvider, LatestProvider(c)})
  /\ [][\A p \in Created :
          (Closes(p) /\ Replaced(p)) => WS_PROVIDERS_CACHE' = WS_PROVIDERS_CACHE]_vars

\* hook instance i holds the provider it created last, which is the cached
\* one, and needs no reconnect
Reconnected(i) ==
  /\ ~hooks[i].needToReconnect
  /\ WS_PROVIDERS_CACHE[hooks[i].chainId] # NoProvider
  /\ WS_PROVIDERS_CACHE[hooks[i].chainId] = Len(providers)
  /\ providers[Len(providers)].owner = i
  /\ hooks[i].provider = WS_PROVIDERS_CACHE[hooks[i].chainId]

\* a reported failure and a close event set the owner's needToReconnect, and
\* a provider that reported a failure has no health-check timer left
FailureRequestsReconnect ==
  /\ [][\A p \in Created :
          (Reports(p) \/ Closes(p)) => hooks'[providers[p].owner].needToReconnect]_vars
  /\ [](\A p \in Created : providers[p].reported => providers[p].timers = 0)

\* C26 as stated: whenever a health check fails or a websocket closes,
\* needToReconnect becomes true and then, effects being scheduled fairly, a
\* new provider is eventually created, cached, returned by the hook, and
\* needToReconnect is false again; the failed provider's health-check loop
\* sets no further timer.
C26_ReconnectsAndReturns ==
  /\ FailureRequestsReconnect
  /\ \A i \in Hooks :
       hooks[i].needToReconnect ~>
         (Reconnected(i) /\ useWsProvider(hooks[i]) = WS_PROVIDERS_CACHE[hooks[i].chainId])

\* C26 amended: the same, but the new provider is held in the hook's state
\* and returned by the hook only while active is true; an inactive hook
\* reconnects as well and returns undefined.
C26_ReconnectsAndHolds ==
  /\ FailureRequestsReconnect
  /\ \A i \in Hooks :
       hooks[i].needToReconnect ~>
         /\ Reconnected(i)
         /\ useWsProvider(hooks[i]) =
              IF hooks[i].active THEN WS_PROVIDERS_CACHE[hooks[i].chainId]
              ELSE NoProvider

\* a hook that reconnected after its provider reported a failure
C26_Witness ==
  \E i \in Hooks : \E p \in Created :
    /\ providers[p].owner = i /\ providers[p].reported
    /\ p < Len(providers)
    /\ Reconnected(i)
    /\ hooks[i].active

\* hook instance i is active and returns a provider the cache has replaced
ReturnsReplaced(i) ==
  /\ useWsProvider(hooks[i]) # NoProvider
  /\ Replaced(useWsProvider(hooks[i]))

\* hook instances i and j are two components using the same chainId
SameChain(i, j) == i # j /\ hooks[i].chainId = hooks[j].chainId

\* C27: of two hook instances on the same chainId, which share the cache
\* entry, none keeps returning for ever a provider that the cache has
\* replaced (each active instance eventually returns the cached provider),
\* and every provider has at most one pending health-check timer.
C27_EveryInstanceFollowsCache ==
  /\ \A i, j \in Hooks : SameChain(i, j) => []<>(~ReturnsReplaced(i))
  /\ [](\A p \in Created : providers[p].timers <= 1)

============================================================================
